---- MODULE Spec2Model ----
(***************************************************************************)
(* A model of the rwfile crate (src/src/lib.rs): RWFile, a multiple-reader *)
(* single-writer lock around one file path, its FileReader / FileWriter    *)
(* guards, and the thread bodies of tests::it_works that use them.         *)
(*                                                                         *)
(* Granularity.  Every statement sequence that runs while the MutexGuard   *)
(* of `meta` is alive (lines 84-89, 104-109, 32, 54) is one action: the    *)
(* std Mutex makes it atomic with respect to every other access of meta.   *)
(* Everything outside the mutex (opening the file, metadata, seek, each    *)
(* read and write call, yield_now) is a step of its own, so that other     *)
(* threads interleave exactly where the code lets them.                    *)
(*                                                                         *)
(* reader_count is a usize.  The model keeps it an unbounded integer and   *)
(* TypeOK states that it never leaves 0..NThreads, so neither the `+= 1`   *)
(* of line 86 nor the `-= 1` of line 32 can overflow.                      *)
(***************************************************************************)
EXTENDS Integers, Sequences, FiniteSets, TLC

\* ------------------------------------------------------------------ bounds
NThreads  == 3   \* threads sharing the RWFile (15 in tests::it_works)
MaxIter   == 2   \* iterations of each thread's loop (1000 in the test)
MarkerLen == 2   \* bytes of the marker (11, b"Hello world", in the test)

Threads == 1..NThreads
Marker  == [i \in 1..MarkerLen |-> i]

VARIABLES
    meta,        \* RWFileMeta under the Mutex: reader_count, writing
    fileExists,  \* the file system: is there a file at `path`
    file,        \* the file system: the bytes of the file at `path`
    role,        \* which closure of it_works a thread runs: "W" or "R"
    pc,          \* where each thread stands in its closure
    iter,        \* completed iterations of the thread's for loop
    cursor,      \* offset of the File owned by the thread's guard
    buf,         \* writer: bytes write_all still has to write;
                 \* reader: bytes read_exact has filled of `readed`
    err,         \* why the thread panicked ("none" while it has not)
    queue,       \* history: the threads inside the loop of reader() or
                 \* writer(), in the order in which they called
    overtaken,   \* history: <<"R", "W">> once a reader() call was admitted
                 \* while a writer() call that began earlier still waited,
                 \* <<"W", "R">> for the converse
    recording    \* whether the run keeps the two histories: they are kept
                 \* in SpecOrder only, and stay empty everywhere else

vars == <<meta, fileExists, file, role, pc, iter, cursor, buf, err, queue,
          overtaken, recording>>

\* --------------------------------------------------- RWFileMeta and RWFile
NewMeta_Writing == [reader_count |-> 0, writing |-> TRUE]
NewMeta == [reader_count |-> 0, writing |-> FALSE]

\* line 85: `if !guard.writing`
ReaderAdmissible_OnlyWhenNoReader(m) == ~m.writing /\ m.reader_count = 0
ReaderAdmissible_Always(m) == TRUE
ReaderAdmissible(m) == ~m.writing

\* line 105: `if !guard.writing && guard.reader_count == 0`
WriterAdmissible_IgnoreReaders(m) == ~m.writing
WriterAdmissible_IgnoreWriter(m) == m.reader_count = 0
WriterAdmissible(m) == ~m.writing /\ m.reader_count = 0

\* line 86: `guard.reader_count += 1`
ReserveReader_AlsoWriting(m) == [m EXCEPT !.reader_count = @ + 1, !.writing = TRUE]
ReserveReader(m) == [m EXCEPT !.reader_count = @ + 1]

\* line 106: `guard.writing = true`
ReserveWriter_Forget(m) == m
ReserveWriter(m) == [m EXCEPT !.writing = TRUE]

\* line 32: `reader_count -= 1`
ReleaseReader_Leak(m) == m
ReleaseReader_Twice(m) == [m EXCEPT !.reader_count = @ - 2]
ReleaseReader(m) == [m EXCEPT !.reader_count = @ - 1]

\* line 54: `writing = false`
ReleaseWriter_Leak(m) == m
ReleaseWriter(m) == [m EXCEPT !.writing = FALSE]

\* ------------------------------------------------------------ file handles
Min(a, b) == IF a < b THEN a ELSE b

\* File::write at offset pos: overwrites in place and extends past the end
\* (a handle opened with write+create, neither append nor truncate)
WriteAt(f, pos, bytes) ==
    [i \in 1..(IF pos + Len(bytes) > Len(f) THEN pos + Len(bytes) ELSE Len(f))
        |-> IF i > pos /\ i <= pos + Len(bytes) THEN bytes[i - pos]
            ELSE IF i <= Len(f) THEN f[i] ELSE 0]

\* File::read of n bytes at offset pos (n never exceeds what is available)
ReadAt(f, pos, n) == [i \in 1..n |-> f[pos + i]]

\* bytes available to a read at offset pos
Avail(f, pos) == IF Len(f) > pos THEN Len(f) - pos ELSE 0

\* lines 24-28: seek(SeekFrom::Start(pos)) moves the offset of the File this
\* guard owns, c being the offsets of all the handles
SeekStart_SharedHandle(c, t, pos) == [u \in DOMAIN c |-> pos]
SeekStart(c, t, pos) == [c EXCEPT ![t] = pos]

\* lines 113-116: a fresh write handle starts at offset 0
WriterOpenCursor_Append(f) == Len(f)
WriterOpenCursor(f) == 0

\* lines 154-155: `len = metadata().len() / 11`, `gen_range(0, len)`
OffsetChoices_Bytes(f) == 0..(Len(f) - 1)
OffsetChoices(f) == 0..((Len(f) \div MarkerLen) - 1)

\* ---------------------------------------------------------------- history
\* the code keeps no record of who waits since when (lines 83-91, 103-111);
\* these operators keep that record for the claims about arrival order
Remove(q, t) == SelectSeq(q, LAMBDA u : u # t)

\* the threads that called before t and are still in their loop
AheadOf(q, t) ==
    {q[i] : i \in {i \in 1..Len(q) : \E j \in (i + 1)..Len(q) : q[j] = t}}

\* the threads that called before t, have been turned away by the test and
\* are in yield_now
WaitingBefore(q, t) == {u \in AheadOf(q, t) : pc[u] \in {"r_yield", "w_yield"}}

\* what the admission of t adds to `overtaken`
Overtakes(q, t) ==
    {<<role[t], role[u]>> : u \in {u \in WaitingBefore(q, t) : role[u] # role[t]}}

\* ------------------------------------------------------------------- types
PcValues == {"start", "r_lock", "r_yield", "r_open", "r_seek", "r_read",
             "r_assert", "r_drop", "r_unwind", "w_lock", "w_yield", "w_open",
             "w_write", "w_drop", "panicked", "done"}
ErrValues == {"none", "open", "empty_range", "eof", "assert"}

TypeOK ==
    /\ meta.reader_count \in 0..NThreads
    /\ meta.writing \in BOOLEAN
    /\ fileExists \in BOOLEAN
    /\ file \in Seq(0..MarkerLen)
    /\ role \in [Threads -> {"R", "W"}]
    /\ pc \in [Threads -> PcValues]
    /\ iter \in [Threads -> 0..MaxIter]
    /\ cursor \in [Threads -> 0..(2 * MarkerLen)]
    /\ buf \in [Threads -> Seq(0..MarkerLen)]
    /\ err \in [Threads -> ErrValues]
    /\ queue \in Seq(Threads)
    /\ overtaken \subseteq {<<"R", "W">>, <<"W", "R">>}
    /\ recording \in BOOLEAN

\* -------------------------------------------------------------------- init
\* RWFile::new (lines 71-79) followed by the spawns of it_works: the first
\* nW threads run the writer closure, the others the reader closure.
InitThreads ==
    /\ meta = NewMeta
    /\ file = << >>
    /\ \E nW \in 0..NThreads :
          role = [t \in Threads |-> IF t <= nW THEN "W" ELSE "R"]
    /\ pc = [t \in Threads |-> "start"]
    /\ iter = [t \in Threads |-> 0]
    /\ cursor = [t \in Threads |-> 0]
    /\ buf = [t \in Threads |-> << >>]
    /\ err = [t \in Threads |-> "none"]
    /\ queue = << >>
    /\ overtaken = {}

\* new() does not touch the file: it may or may not exist yet
Init == InitThreads /\ fileExists \in BOOLEAN /\ recording = FALSE

\* ----------------------------------------------------------------- actions
\* lines 143-144, 152-153: next iteration of the for loop, entering
\* writer() or reader()
Call(t) ==
    /\ pc[t] = "start" /\ iter[t] < MaxIter
    /\ pc' = [pc EXCEPT ![t] = IF role[t] = "W" THEN "w_lock" ELSE "r_lock"]
    /\ queue' = IF recording THEN Append(queue, t) ELSE queue
    /\ UNCHANGED <<meta, fileExists, file, role, iter, cursor, buf, err,
                   overtaken, recording>>

\* the for loop is over: the closure returns
Finish(t) ==
    /\ pc[t] = "start" /\ iter[t] = MaxIter
    /\ pc' = [pc EXCEPT ![t] = "done"]
    /\ UNCHANGED <<meta, fileExists, file, role, iter, cursor, buf, err,
                   queue, overtaken, recording>>

\* lines 84-88: lock, test passes, reserve, break (guard dropped)
ReaderAdmit(t) ==
    /\ pc[t] = "r_lock"
    /\ ReaderAdmissible(meta)
    /\ meta' = ReserveReader(meta)
    /\ pc' = [pc EXCEPT ![t] = "r_open"]
    /\ queue' = Remove(queue, t)
    /\ overtaken' = overtaken \cup Overtakes(queue, t)
    /\ UNCHANGED <<fileExists, file, role, iter, cursor, buf, err, recording>>

\* lines 84-85, 89: lock, test fails, drop(guard)
ReaderRetry(t) ==
    /\ pc[t] = "r_lock"
    /\ ~ReaderAdmissible(meta)
    /\ pc' = [pc EXCEPT ![t] = "r_yield"]
    /\ UNCHANGED <<meta, fileExists, file, role, iter, cursor, buf, err,
                   queue, overtaken, recording>>

\* lines 104-108
WriterAdmit(t) ==
    /\ pc[t] = "w_lock"
    /\ WriterAdmissible(meta)
    /\ meta' = ReserveWriter(meta)
    /\ pc' = [pc EXCEPT ![t] = "w_open"]
    /\ queue' = Remove(queue, t)
    /\ overtaken' = overtaken \cup Overtakes(queue, t)
    /\ UNCHANGED <<fileExists, file, role, iter, cursor, buf, err, recording>>

\* lines 104-105, 109
WriterRetry(t) ==
    /\ pc[t] = "w_lock"
    /\ ~WriterAdmissible(meta)
    /\ pc' = [pc EXCEPT ![t] = "w_yield"]
    /\ UNCHANGED <<meta, fileExists, file, role, iter, cursor, buf, err,
                   queue, overtaken, recording>>

\* lines 90, 110: thread::yield_now(), then back to the top of the loop
Yield(t) ==
    /\ pc[t] \in {"r_yield", "w_yield"}
    /\ pc' = [pc EXCEPT ![t] = IF pc[t] = "r_yield" THEN "r_lock" ELSE "w_lock"]
    /\ UNCHANGED <<meta, fileExists, file, role, iter, cursor, buf, err,
                   queue, overtaken, recording>>

\* lines 92-98: open for reading succeeds, the FileReader is returned
ReaderOpenOk(t) ==
    /\ pc[t] = "r_open"
    /\ fileExists
    /\ cursor' = [cursor EXCEPT ![t] = 0]
    /\ buf' = [buf EXCEPT ![t] = << >>]
    /\ pc' = [pc EXCEPT ![t] = "r_seek"]
    /\ UNCHANGED <<meta, fileExists, file, role, iter, err,
                   queue, overtaken, recording>>

\* lines 93-96: open fails (no such file, or any other I/O error) and
\* unwrap() panics; no FileReader exists yet, so nothing is dropped
ReaderOpenFail(t) ==
    /\ pc[t] = "r_open"
    /\ pc' = [pc EXCEPT ![t] = "panicked"]
    /\ err' = [err EXCEPT ![t] = "open"]
    /\ UNCHANGED <<meta, fileExists, file, role, iter, cursor, buf,
                   queue, overtaken, recording>>

\* lines 112-119: open for writing (creating the file if absent) succeeds;
\* line 144: write_all starts with the whole marker to write
WriterOpenOk(t) ==
    /\ pc[t] = "w_open"
    /\ fileExists' = TRUE
    /\ cursor' = [cursor EXCEPT ![t] = WriterOpenCursor(file)]
    /\ buf' = [buf EXCEPT ![t] = Marker]
    /\ pc' = [pc EXCEPT ![t] = "w_write"]
    /\ UNCHANGED <<meta, file, role, iter, err, queue, overtaken, recording>>

\* lines 113-117: open fails and unwrap() panics
WriterOpenFail(t) ==
    /\ pc[t] = "w_open"
    /\ pc' = [pc EXCEPT ![t] = "panicked"]
    /\ err' = [err EXCEPT ![t] = "open"]
    /\ UNCHANGED <<meta, fileExists, file, role, iter, cursor, buf,
                   queue, overtaken, recording>>

\* lines 43-45 under write_all (line 144): one write call takes n >= 1 of
\* the remaining bytes; write_all returns when none remain
WriterWrite(t) ==
    /\ pc[t] = "w_write"
    /\ \E n \in 1..Len(buf[t]) :
          /\ file' = WriteAt(file, cursor[t], SubSeq(buf[t], 1, n))
          /\ cursor' = [cursor EXCEPT ![t] = @ + n]
          /\ buf' = [buf EXCEPT ![t] = SubSeq(@, n + 1, Len(@))]
          /\ pc' = [pc EXCEPT ![t] = IF n = Len(buf[t]) THEN "w_drop"
                                     ELSE "w_write"]
    /\ UNCHANGED <<meta, fileExists, role, iter, err,
                   queue, overtaken, recording>>

\* lines 52-56 at the end of the statement of line 144
WriterDrop(t) ==
    /\ pc[t] = "w_drop"
    /\ meta' = ReleaseWriter(meta)
    /\ cursor' = [cursor EXCEPT ![t] = 0]
    /\ buf' = [buf EXCEPT ![t] = << >>]
    /\ iter' = [iter EXCEPT ![t] = @ + 1]
    /\ pc' = [pc EXCEPT ![t] = "start"]
    /\ UNCHANGED <<fileExists, file, role, err, queue, overtaken, recording>>

\* lines 154-156: file length, random offset, seek; gen_range panics on an
\* empty range
ReaderSeek(t) ==
    /\ pc[t] = "r_seek"
    /\ IF OffsetChoices(file) = {}
       THEN /\ pc' = [pc EXCEPT ![t] = "r_unwind"]
            /\ err' = [err EXCEPT ![t] = "empty_range"]
            /\ UNCHANGED cursor
       ELSE /\ \E offset \in OffsetChoices(file) :
                  cursor' = SeekStart(cursor, t, offset)
            /\ pc' = [pc EXCEPT ![t] = "r_read"]
            /\ UNCHANGED err
    /\ UNCHANGED <<meta, fileExists, file, role, iter, buf,
                   queue, overtaken, recording>>

\* lines 19-21 under read_exact (line 158): one read call returns n >= 1 of
\* the bytes still wanted, or 0 at end of file, which read_exact turns into
\* UnexpectedEof and unwrap() into a panic
ReaderRead(t) ==
    /\ pc[t] = "r_read"
    /\ LET want == MarkerLen - Len(buf[t])
           have == Avail(file, cursor[t])
       IN IF have = 0
          THEN /\ pc' = [pc EXCEPT ![t] = "r_unwind"]
               /\ err' = [err EXCEPT ![t] = "eof"]
               /\ UNCHANGED <<cursor, buf>>
          ELSE /\ \E n \in 1..Min(want, have) :
                     /\ buf' = [buf EXCEPT ![t] = @ \o ReadAt(file, cursor[t], n)]
                     /\ cursor' = [cursor EXCEPT ![t] = @ + n]
                     /\ pc' = [pc EXCEPT ![t] = IF n = want THEN "r_assert"
                                                ELSE "r_read"]
               /\ UNCHANGED err
    /\ UNCHANGED <<meta, fileExists, file, role, iter,
                   queue, overtaken, recording>>

\* line 159: assert_eq!(&readed, b"Hello world")
ReaderAssert(t) ==
    /\ pc[t] = "r_assert"
    /\ IF buf[t] = Marker
       THEN /\ pc' = [pc EXCEPT ![t] = "r_drop"]
            /\ UNCHANGED err
       ELSE /\ pc' = [pc EXCEPT ![t] = "r_unwind"]
            /\ err' = [err EXCEPT ![t] = "assert"]
    /\ UNCHANGED <<meta, fileExists, file, role, iter, cursor, buf,
                   queue, overtaken, recording>>

\* lines 30-34 at the end of the loop body (line 160)
ReaderDrop(t) ==
    /\ pc[t] = "r_drop"
    /\ meta' = ReleaseReader(meta)
    /\ cursor' = [cursor EXCEPT ![t] = 0]
    /\ buf' = [buf EXCEPT ![t] = << >>]
    /\ iter' = [iter EXCEPT ![t] = @ + 1]
    /\ pc' = [pc EXCEPT ![t] = "start"]
    /\ UNCHANGED <<fileExists, file, role, err, queue, overtaken, recording>>

\* lines 30-34 while the panic unwinds the closure's frame: `guard` is
\* dropped, then the thread is gone
ReaderUnwind(t) ==
    /\ pc[t] = "r_unwind"
    /\ meta' = ReleaseReader(meta)
    /\ cursor' = [cursor EXCEPT ![t] = 0]
    /\ buf' = [buf EXCEPT ![t] = << >>]
    /\ pc' = [pc EXCEPT ![t] = "panicked"]
    /\ UNCHANGED <<fileExists, file, role, iter, err,
                   queue, overtaken, recording>>

\* ----------------------------------------------------------- specification
Next ==
    \E t \in Threads :
        \/ Call(t)
        \/ Finish(t)
        \/ ReaderAdmit(t)
        \/ ReaderRetry(t)
        \/ WriterAdmit(t)
        \/ WriterRetry(t)
        \/ Yield(t)
        \/ ReaderOpenOk(t)
        \/ ReaderOpenFail(t)
        \/ WriterOpenOk(t)
        \/ WriterOpenFail(t)
        \/ WriterWrite(t)
        \/ WriterDrop(t)
        \/ ReaderSeek(t)
        \/ ReaderRead(t)
        \/ ReaderAssert(t)
        \/ ReaderDrop(t)
        \/ ReaderUnwind(t)

Spec == Init /\ [][Next]_vars

\* --------------------------------------- every open succeeds, fair threads
\* tests::it_works creates the file (NamedTempFile, line 136) before any
\* thread runs
InitLive == InitThreads /\ fileExists = TRUE /\ recording = FALSE

StepLive(t) ==
    \/ Call(t)
    \/ Finish(t)
    \/ ReaderAdmit(t)
    \/ ReaderRetry(t)
    \/ WriterAdmit(t)
    \/ WriterRetry(t)
    \/ Yield(t)
    \/ ReaderOpenOk(t)
    \/ WriterOpenOk(t)
    \/ WriterWrite(t)
    \/ WriterDrop(t)
    \/ ReaderSeek(t)
    \/ ReaderRead(t)
    \/ ReaderAssert(t)
    \/ ReaderDrop(t)
    \/ ReaderUnwind(t)

NextLive == \E t \in Threads : StepLive(t)

\* an OS thread that can run is eventually run
SpecLive == InitLive /\ [][NextLive]_vars
                     /\ \A t \in Threads : WF_vars(StepLive(t))

\* ------------------------------------------------------ guards and threads
\* a FileReader exists from the return of reader() to the end of its drop
ReaderGuardLive(t) ==
    pc[t] \in {"r_seek", "r_read", "r_assert", "r_drop", "r_unwind"}

\* a FileWriter exists from the return of writer() to the end of its drop
WriterGuardLive(t) == pc[t] \in {"w_write", "w_drop"}

\* reader() passed line 87 and has not returned a FileReader
ReaderPending(t) ==
    role[t] = "R" /\ (pc[t] = "r_open" \/ (pc[t] = "panicked" /\ err[t] = "open"))

\* writer() passed line 107 and has not returned a FileWriter
WriterPending(t) ==
    role[t] = "W" /\ (pc[t] = "w_open" \/ (pc[t] = "panicked" /\ err[t] = "open"))

Idle == meta = NewMeta
AllDone == \A t \in Threads : pc[t] = "done"
AllTerminated == \A t \in Threads : pc[t] \in {"done", "panicked"}

\* k markers one after the other
Markers(k) == [i \in 1..(k * MarkerLen) |-> Marker[((i - 1) % MarkerLen) + 1]]

\* ------------------------------------------------------------------ claims

\* C1: in every reachable state, writing = TRUE implies reader_count = 0
\* (and so reader_count > 0 implies writing = FALSE).
MutualExclusionOfCounters ==
    /\ meta.writing => meta.reader_count = 0
    /\ meta.reader_count > 0 => ~meta.writing

\* a writer is writing while a reader, turned away, spins
MutualExclusionOfCounters_Witness ==
    \E w, r \in Threads : pc[w] = "w_write" /\ pc[r] = "r_yield" /\ meta.writing

\* C2: never two FileWriter guards at once, and never a FileWriter guard
\* together with a FileReader guard.
MutualExclusionOfGuards ==
    /\ \A t, u \in Threads : WriterGuardLive(t) /\ WriterGuardLive(u) => t = u
    /\ \A t, u \in Threads : ~(WriterGuardLive(t) /\ ReaderGuardLive(u))

\* one FileWriter is live while another writer and a reader are turned away
MutualExclusionOfGuards_Witness ==
    \E w, v, r \in Threads :
        WriterGuardLive(w) /\ pc[v] = "w_yield" /\ pc[r] = "r_yield"

\* C3: when the open inside reader() or writer() fails, the reservation is
\* undone in that step: reader_count is decremented again, writing is
\* cleared again.
RollbackOnOpenFailure ==
    [][\A t \in Threads :
          /\ (pc[t] = "r_open" /\ pc'[t] = "panicked")
                => meta' = [meta EXCEPT !.reader_count = @ - 1]
          /\ (pc[t] = "w_open" /\ pc'[t] = "panicked")
                => meta' = [meta EXCEPT !.writing = FALSE]]_vars

\* C4: the release happens exactly once per guard, in the step that destroys
\* the guard and in no other step; a decrement never finds reader_count = 0.
ExactlyOnceRelease ==
    [][/\ \A t \in Threads :
            /\ (ReaderGuardLive(t) /\ ~ReaderGuardLive(t)')
                  => /\ meta.reader_count > 0
                     /\ meta' = [meta EXCEPT !.reader_count = @ - 1]
            /\ (WriterGuardLive(t) /\ ~WriterGuardLive(t)')
                  => /\ meta.writing
                     /\ meta' = [meta EXCEPT !.writing = FALSE]
       /\ meta'.reader_count < meta.reader_count
            => \E t \in Threads : ReaderGuardLive(t) /\ ~ReaderGuardLive(t)'
       /\ (meta.writing /\ ~meta'.writing)
            => \E t \in Threads : WriterGuardLive(t) /\ ~WriterGuardLive(t)']_vars

\* a writer and a reader have each dropped a guard normally, and a second
\* reader has dropped its guard while unwinding from a panic
ExactlyOnceRelease_Witness ==
    \E w, r, u \in Threads :
        /\ role[w] = "W" /\ iter[w] >= 1
        /\ role[r] = "R" /\ iter[r] >= 1
        /\ pc[u] = "panicked" /\ err[u] = "empty_range"

\* C5 (as stated): reader_count is the number of live FileReader guards and
\* writing holds exactly when a FileWriter guard is live.
CountersEqualLiveGuards ==
    /\ meta.reader_count = Cardinality({t \in Threads : ReaderGuardLive(t)})
    /\ meta.writing <=> \E t \in Threads : WriterGuardLive(t)

\* C5 (amended): reader_count is the number of live FileReader guards plus
\* the number of reader() calls that were admitted and have not returned a
\* guard; writing holds exactly when a FileWriter is live or a writer() call
\* was admitted and has not returned a guard.
CountersEqualReservations ==
    /\ meta.reader_count =
          Cardinality({t \in Threads : ReaderGuardLive(t) \/ ReaderPending(t)})
    /\ meta.writing <=>
          \E t \in Threads : WriterGuardLive(t) \/ WriterPending(t)

\* reader_count = 2 with one FileReader live and one reader() call between
\* admission and open
CountersEqualReservations_Witness ==
    \E r, u \in Threads :
        ReaderGuardLive(r) /\ pc[u] = "r_open" /\ meta.reader_count = 2

\* C6: when every thread is a writer and has finished its MaxIter sessions,
\* the file holds NThreads * MaxIter markers.
NoLostWrites ==
    (\A t \in Threads : role[t] = "W" /\ pc[t] = "done")
        => file = Markers(NThreads * MaxIter)

\* C7: while a FileReader is live the file does not change and no write_all
\* is part-way through its marker.
ReaderIsolation ==
    [][(\E r \in Threads : ReaderGuardLive(r))
          => /\ file' = file /\ fileExists' = fileExists
             /\ \A w \in Threads :
                   ~(WriterGuardLive(w) /\ Len(buf[w]) \in 1..(MarkerLen - 1))]_vars

\* a FileReader is live on a written file while a writer is turned away
ReaderIsolation_Witness ==
    \E r, w \in Threads :
        ReaderGuardLive(r) /\ pc[w] = "w_yield" /\ Len(file) > 0

\* C8: every read_exact of the reader closure fills `readed` with one whole
\* marker: none ends in UnexpectedEof and no assert_eq fails.
EveryReadReturnsMarker ==
    \A t \in Threads :
        /\ err[t] \notin {"eof", "assert"}
        /\ pc[t] = "r_assert" => buf[t] = Marker

\* a reader has read a marker while a writer waits for it
EveryReadReturnsMarker_Witness ==
    \E r, w \in Threads :
        pc[r] = "r_assert" /\ buf[r] = Marker /\ pc[w] \in {"w_lock", "w_yield"}

\* a thread that is neither finished nor spinning on a condition that is false
CanProgress(t) ==
    /\ pc[t] \notin {"done", "panicked"}
    /\ pc[t] \in {"r_lock", "r_yield"} => ReaderAdmissible(meta)
    /\ pc[t] \in {"w_lock", "w_yield"} => WriterAdmissible(meta)

NotAllStuck ==
    (\E t \in Threads : pc[t] \notin {"done", "panicked"})
        => \E t \in Threads : CanProgress(t)

ReaderAdmissionByWritingOnly ==
    [][\A t \in Threads :
          (pc[t] = "r_lock" /\ pc'[t] # "r_lock")
             => IF meta.writing
                THEN pc'[t] = "r_yield" /\ meta' = meta
                ELSE /\ pc'[t] = "r_open"
                     /\ meta' = [meta EXCEPT !.reader_count = @ + 1]]_vars

\* two FileReader guards live at once
ReaderAdmissionByWritingOnly_Witness ==
    \E r, u \in Threads :
        r # u /\ ReaderGuardLive(r) /\ ReaderGuardLive(u) /\ meta.reader_count = 2

\* threads whose writer() call passed the test of line 105 and whose
\* reservation has not been released
WritersAdmitted ==
    {t \in Threads : pc[t] = "w_open" \/ WriterGuardLive(t) \/ WriterPending(t)}

\* C11: a writer() call that tests the state is admitted exactly when
\* writing = FALSE and reader_count = 0, the admission sets writing and
\* leaves reader_count alone, writing is set by no other step, and never
\* have two writer() calls passed the test at once.
WriterAdmittedOnlyFromIdle ==
    /\ [](Cardinality(WritersAdmitted) <= 1)
    /\ [][/\ \A t \in Threads :
               (pc[t] = "w_lock" /\ pc'[t] # "w_lock")
                  => IF ~meta.writing /\ meta.reader_count = 0
                     THEN /\ pc'[t] = "w_open"
                          /\ meta' = [meta EXCEPT !.writing = TRUE]
                     ELSE pc'[t] = "w_yield" /\ meta' = meta
          /\ (~meta.writing /\ meta'.writing)
               => /\ meta.reader_count = 0 /\ meta'.reader_count = 0
                  /\ \E t \in Threads : pc[t] = "w_lock" /\ pc'[t] = "w_open"]_vars

\* one writer() call has been admitted and a second one, testing the state
\* after it, was turned away
WriterAdmittedOnlyFromIdle_Witness ==
    \E w, v \in Threads :
        w # v /\ pc[w] = "w_open" /\ pc[v] = "w_yield" /\ meta.writing

\* C12: an open failure comes back to the caller as an error value: the
\* thread whose open failed is not terminated and can go on to call
\* reader() or writer() again.
OpenFailureIsReturned ==
    \A t \in Threads : err[t] = "open" => pc[t] # "panicked"

\* C13: RWFile::new leaves the lock idle with no handle open, and the file
\* is created only by the open of a writer() call and written only through
\* a FileWriter.
NewIsIdleAndLeavesFileAlone ==
    /\ meta.reader_count = 0 /\ ~meta.writing
    /\ \A t \in Threads : ~ReaderGuardLive(t) /\ ~WriterGuardLive(t)
    /\ [][/\ fileExists' # fileExists
               => \E t \in Threads : pc[t] = "w_open" /\ pc'[t] = "w_write"
          /\ file' # file
               => \E t \in Threads : pc[t] = "w_write"]_vars

\* after new(), and after other threads have started to call in, there is
\* still no file: an admitted writer() call is about to create it
NewIsIdleAndLeavesFileAlone_Witness ==
    /\ ~fileExists
    /\ \E w, v \in Threads :
          pc[w] = "w_open" /\ pc[v] \in {"r_yield", "w_yield"}

\* threads whose open inside reader() / writer() has failed
ReaderOpenFailed(t) == role[t] = "R" /\ pc[t] = "panicked" /\ err[t] = "open"
WriterOpenFailed(t) == role[t] = "W" /\ pc[t] = "panicked" /\ err[t] = "open"

\* C16: reader_count and writing change only in an admission step and in the
\* step that destroys a guard; reader admission and FileReader drop leave
\* writing alone, writer admission and FileWriter drop leave reader_count
\* alone; seek, read, write, a failed test, yield and open change neither.
LockStateFrame ==
    [][/\ meta' # meta
            => \E t \in Threads :
                  \/ pc[t] = "r_lock" /\ pc'[t] = "r_open"
                  \/ pc[t] = "w_lock" /\ pc'[t] = "w_open"
                  \/ ReaderGuardLive(t) /\ ~ReaderGuardLive(t)'
                  \/ WriterGuardLive(t) /\ ~WriterGuardLive(t)'
       /\ \A t \in Threads :
            /\ (pc[t] = "r_lock" /\ pc'[t] = "r_open")
                  => meta'.writing = meta.writing
            /\ (pc[t] = "w_lock" /\ pc'[t] = "w_open")
                  => meta'.reader_count = meta.reader_count
            /\ (ReaderGuardLive(t) /\ ~ReaderGuardLive(t)')
                  => meta'.writing = meta.writing
            /\ (WriterGuardLive(t) /\ ~WriterGuardLive(t)')
                  => meta'.reader_count = meta.reader_count
            /\ (pc[t] \in {"r_seek", "r_read", "r_assert", "w_write", "r_open",
                           "w_open", "r_yield", "w_yield", "start"}
                  /\ (pc'[t] # pc[t] \/ buf'[t] # buf[t]))
                  => meta' = meta
            /\ (pc[t] \in {"r_lock", "w_lock"} /\ pc'[t] \in {"r_yield", "w_yield"})
                  => meta' = meta]_vars

\* a reader has sought and read through its guard while a writer that wrote
\* and dropped a guard earlier has now failed the test
LockStateFrame_Witness ==
    \E r, w \in Threads :
        /\ pc[r] = "r_drop" /\ meta.reader_count = 1
        /\ role[w] = "W" /\ iter[w] >= 1 /\ pc[w] = "w_yield"

\* C17: a step moves the cursor of at most one guard, the guard of the
\* thread that takes the step, and a newly opened FileReader starts at
\* offset 0 whatever the cursors of the other guards are.
CursorPerGuard ==
    [][\A u \in Threads :
          /\ cursor'[u] # cursor[u]
                => /\ pc[u] \in {"r_open", "r_seek", "r_read", "r_drop",
                                 "r_unwind", "w_open", "w_write", "w_drop"}
                   /\ \A v \in Threads \ {u} :
                         /\ cursor'[v] = cursor[v]
                         /\ pc'[v] = pc[v] /\ buf'[v] = buf[v]
          /\ (pc[u] = "r_open" /\ pc'[u] = "r_seek") => cursor'[u] = 0]_vars

\* two FileReaders are live with different cursors, and one of them seeks
CursorPerGuard_Witness ==
    \E r, u \in Threads :
        /\ ReaderGuardLive(r) /\ ReaderGuardLive(u)
        /\ cursor[r] # cursor[u] /\ pc[u] = "r_seek"

\* C18: as long as no open has failed, reader_count is the number of live
\* FileReaders plus the reader() calls between admission and return, and
\* writing holds exactly when a FileWriter is live or a writer() call is
\* between admission and return; and always reader_count is at least the
\* number of live FileReaders and a live FileWriter implies writing.
ReservationPrecedesOpen ==
    /\ (\A t \in Threads : err[t] # "open")
          => /\ meta.reader_count =
                   Cardinality({t \in Threads : ReaderGuardLive(t)})
                   + Cardinality({t \in Threads : pc[t] = "r_open"})
             /\ meta.writing <=>
                   \E t \in Threads : WriterGuardLive(t) \/ pc[t] = "w_open"
    /\ meta.reader_count >= Cardinality({t \in Threads : ReaderGuardLive(t)})
    /\ (\E t \in Threads : WriterGuardLive(t)) => meta.writing

\* writing is already set while the admitted writer() call has not opened
\* the file yet, and a reader has been turned away because of it
ReservationPrecedesOpen_Witness ==
    /\ \E w, r \in Threads : pc[w] = "w_open" /\ pc[r] = "r_yield"
    /\ meta.writing
    /\ \A t \in Threads : ~WriterGuardLive(t) /\ err[t] # "open"

\* C19: once the open inside writer() has failed, writing stays true and no
\* reader() or writer() call is admitted or returns a guard; once the open
\* inside reader() has failed, reader_count stays at least 1 and no writer()
\* call is admitted, while every reader() call that tests the state is
\* admitted.
FailedOpenStaysReserved ==
    /\ []((\E w \in Threads : WriterOpenFailed(w))
            => /\ meta.writing
               /\ \A t \in Threads :
                     /\ ~ReaderGuardLive(t) /\ ~WriterGuardLive(t)
                     /\ pc[t] \notin {"r_open", "w_open"})
    /\ []((\E r \in Threads : ReaderOpenFailed(r))
            => /\ meta.reader_count >= 1 /\ ~meta.writing
               /\ \A t \in Threads :
                     ~WriterGuardLive(t) /\ pc[t] # "w_open")
    /\ [][\A t \in Threads :
            /\ (ReaderOpenFailed(t) => ReaderOpenFailed(t)')
            /\ (WriterOpenFailed(t) => WriterOpenFailed(t)')
            /\ ((\E r \in Threads : ReaderOpenFailed(r))
                  /\ pc[t] = "r_lock" /\ pc'[t] # "r_lock")
                  => pc'[t] = "r_open"]_vars

\* a reader's open has failed; another reader holds a guard and a writer
\* that completed a session before is turned away
FailedOpenStaysReserved_Witness ==
    \E r, u, w \in Threads :
        /\ ReaderOpenFailed(r) /\ ReaderGuardLive(u)
        /\ pc[w] = "w_yield" /\ iter[w] >= 1
        /\ meta.reader_count = 2

\* C20: a FileWriter starts at offset 0 and its open leaves the bytes of the
\* file alone, so the file never grows beyond one marker, and from the first
\* completed writer session on it is exactly one marker.
WriterOverwritesFromStart ==
    /\ [](Len(file) <= MarkerLen)
    /\ []((\E w \in Threads : role[w] = "W" /\ iter[w] >= 1) => file = Marker)
    /\ [][\A t \in Threads :
            (pc[t] = "w_open" /\ pc'[t] = "w_write")
               => cursor'[t] = 0 /\ file' = file]_vars

\* three writer sessions have completed and the file is one marker
WriterOverwritesFromStart_Witness ==
    /\ \E w, v \in Threads :
          /\ w # v /\ role[w] = "W" /\ role[v] = "W"
          /\ iter[w] = MaxIter /\ iter[v] >= 1
    /\ file = Marker

\* ------------------------------------------- readers whose holds overlap
\* One writer thread next to reader threads whose loop never ends, on a file
\* that already holds one marker.
InitStarve ==
    /\ meta = NewMeta
    /\ fileExists = TRUE
    /\ file = Marker
    /\ role = [t \in Threads |-> IF t = 1 THEN "W" ELSE "R"]
    /\ pc = [t \in Threads |-> "start"]
    /\ iter = [t \in Threads |-> 0]
    /\ cursor = [t \in Threads |-> 0]
    /\ buf = [t \in Threads |-> << >>]
    /\ err = [t \in Threads |-> "none"]
    /\ queue = << >>
    /\ overtaken = {}
    /\ recording = FALSE

\* lines 30-34 at the end of the body of a `loop`: the FileReader is dropped
\* and the next iteration follows.  The schedule lets a reader reach the end
\* of its loop body only while another reader has its reservation, which is
\* one of the orders in which the OS may run the threads.
ReaderDropAgain(t) ==
    /\ pc[t] = "r_drop"
    /\ meta.reader_count >= 2
    /\ meta' = ReleaseReader(meta)
    /\ cursor' = [cursor EXCEPT ![t] = 0]
    /\ buf' = [buf EXCEPT ![t] = << >>]
    /\ pc' = [pc EXCEPT ![t] = "start"]
    /\ UNCHANGED <<fileExists, file, role, iter, err,
                   queue, overtaken, recording>>

StepStarve(t) ==
    \/ Call(t)
    \/ Finish(t)
    \/ ReaderAdmit(t)
    \/ ReaderRetry(t)
    \/ WriterAdmit(t)
    \/ WriterRetry(t)
    \/ Yield(t)
    \/ ReaderOpenOk(t)
    \/ WriterOpenOk(t)
    \/ WriterWrite(t)
    \/ WriterDrop(t)
    \/ ReaderSeek(t)
    \/ ReaderRead(t)
    \/ ReaderAssert(t)
    \/ ReaderDropAgain(t)

NextStarve == \E t \in Threads : StepStarve(t)

\* every thread that can run is eventually run, and a reader that can again
\* and again end its loop body eventually does
SpecStarve == InitStarve /\ [][NextStarve]_vars
                         /\ \A t \in Threads :
                               WF_vars(StepStarve(t)) /\ SF_vars(ReaderDropAgain(t))

WriterWaiting(t) == pc[t] \in {"w_lock", "w_yield"}

\* C14: with readers whose holds overlap, every thread keeps taking steps
\* (so the run is fair to every thread) and every FileReader is eventually
\* dropped, and yet a writer() call that waits while a reader has its
\* reservation waits for ever: it tests the state again and again and is
\* never admitted.
WriterStarves ==
    \A t \in Threads :
        /\ <>[](pc[t] = "done") \/ []<><<StepStarve(t)>>_vars
        /\ ReaderGuardLive(t) ~> ~ReaderGuardLive(t)
        /\ [](WriterWaiting(t) /\ meta.reader_count >= 1
                => [](WriterWaiting(t) /\ meta.reader_count >= 1))
        /\ [](WriterWaiting(t) /\ meta.reader_count >= 1
                => []<>(pc[t] = "w_yield"))

\* the writer has failed the test while two readers have their reservations
WriterStarves_Witness ==
    \E w, r, u \in Threads :
        /\ r # u /\ pc[w] = "w_yield" /\ meta.reader_count = 2
        /\ ReaderGuardLive(r) /\ pc[u] = "r_open" /\ iter[w] = 0

\* the threads of Spec, with the order of their calls kept as history
InitOrder == InitThreads /\ fileExists \in BOOLEAN /\ recording = TRUE

SpecOrder == InitOrder /\ [][Next]_vars

\* C15: admission looks at reader_count and writing only, never at who has
\* waited longer: a reader() call that tests the state while writing = FALSE
\* is admitted although a writer() call that began earlier has been turned
\* away and still waits, and that writer keeps waiting; a writer() call that
\* tests the idle state is admitted although a reader() call that began
\* earlier has been turned away and still waits.
NoArrivalOrder ==
    [][\A t \in Threads :
          /\ (/\ pc[t] = "r_lock" /\ pc'[t] # "r_lock"
              /\ ~meta.writing
              /\ \E w \in WaitingBefore(queue, t) : role[w] = "W")
                => /\ pc'[t] = "r_open"
                   /\ <<"R", "W">> \in overtaken'
                   /\ \A w \in WaitingBefore(queue, t) : pc'[w] = pc[w]
          /\ (/\ pc[t] = "w_lock" /\ pc'[t] # "w_lock"
              /\ ~meta.writing /\ meta.reader_count = 0
              /\ \E r \in WaitingBefore(queue, t) : role[r] = "R")
                => /\ pc'[t] = "w_open"
                   /\ <<"W", "R">> \in overtaken'
                   /\ \A r \in WaitingBefore(queue, t) : pc'[r] = pc[r]]_vars

\* both have happened: a reader was admitted ahead of a writer that had
\* called earlier, and a writer ahead of a reader that had called earlier
NoArrivalOrder_Witness ==
    overtaken = {<<"R", "W">>, <<"W", "R">>}

====
